---------------------------- MODULE Spec2Model ----------------------------
(***************************************************************************)
(* Model of hyper's server Response (src/src/server/response.rs): a        *)
(* Response<W, S> owns a version, a status, a header collection and a      *)
(* BufferedWriter<S> over the network stream.  Response<Fresh> is turned   *)
(* into Response<Streaming> by start(), which writes the status line and   *)
(* the headers; write/flush/end exist on Response<Streaming> only.         *)
(*                                                                         *)
(* A "byte" of the model is one token (a string): the rendering of one     *)
(* formatted argument or one literal character.  Lengths and the buffer    *)
(* capacity are counted in tokens.                                         *)
(***************************************************************************)
EXTENDS Integers, Sequences, FiniteSets, TLC

VARIABLES
    phase,      \* the type parameter W, or what became of the value
    version,    \* Response.version
    body,       \* Response.body : BufferedWriter<S> = [inner, buf, cap]
    status,     \* Response.status
    headers,    \* Response.headers : sequence of [name, value]
    clock,      \* the wall clock read by now_utc()
    \* history of the calls made so far (not program state)
    lastOp,     \* the last of new, construct, start, write, flush, end, drop
    lastOk,     \* whether it returned Ok
    startedAt,  \* clock value when start() was invoked, -1 before
    given,      \* the headers when start() was invoked
    dateRead,   \* the clock reading start() put in Date, -1 if none
    calls,      \* the self.body.write calls start() issued, in order
    errAt,      \* index in calls of the write that returned Err, 0 if none
    committed,  \* <<[status, headers]>> when start() returned Ok
    written,    \* every byte handed to self.body.write so far, in order
    sent,       \* bytes given to write() calls that returned Ok
    offered,    \* number of bytes given to write() calls so far
    faulted,    \* whether a write() or flush() on the response returned Err
    nops,       \* number of write/flush calls made on the Streaming response
    ios,        \* number of calls the last operation made on the stream
    failedIo    \* which of them returned Err, 0 if none

prog == <<phase, version, body, status, headers>>
hist_start == <<startedAt, given, dateRead, calls, errAt, committed>>
hist_body == <<sent, offered, faulted, nops>>
hist_io == <<ios, failedIo>>
vars == <<prog, clock, lastOp, lastOk, hist_start, written, hist_body, hist_io>>

---------------------------------------------------------------------------
(* Bounds of the model *)

\* capacity of the small BufferedWriter, in tokens
SmallCap == 2
\* last clock value
MaxClock == 1
\* write/flush calls explored on one Streaming response
MaxOps == 2

\* std::io::buffered DEFAULT_BUF_SIZE, the capacity BufferedWriter::new uses
DEFAULT_BUF_SIZE == 65536

---------------------------------------------------------------------------
(* Values *)

Min(a, b) == IF a < b THEN a ELSE b

Versions == {"Http10", "Http11"}
Statuses == {"Ok", "NotFound"}

\* rfc7230::{CR, LF, LINE_ENDING}
CR == "\\r"
LF == "\\n"
LINE_ENDING == <<CR, LF>>

\* Show for version::HttpVersion
FmtVersion(v) == IF v = "Http11" THEN "HTTP/1.1" ELSE "HTTP/1.0"
\* Show for status::StatusCode
FmtStatus(s) == IF s = "Ok" THEN "200 OK" ELSE "404 Not Found"
\* Show for common::Date: the textual form of a time
FmtDate(t) == "date@" \o ToString(t)

\* The body bytes a handler writes.  write() never looks at the bytes it is
\* given, so the i-th byte a handler offers is named after its place i:
\* every offered byte is distinct from every other and from the preamble.
BodyByte(i) == "body#" \o ToString(i)
\* the message of `len` bytes offered after `n` bytes were offered before
Msg(n, len) == [i \in 1..len |-> BodyByte(n + i)]
\* lengths of the messages offered: up to one more than the small buffer holds
MsgLens == 0..(SmallCap + 1)

RECURSIVE Flatten(_)
Flatten(ss) == IF ss = <<>> THEN <<>> ELSE Head(ss) \o Flatten(Tail(ss))

IsPrefix(p, s) == Len(p) <= Len(s) /\ SubSeq(s, 1, Len(p)) = p

---------------------------------------------------------------------------
(* header::Headers: an ordered map with unique names *)

DateName == "Date"
\* the headers a handler sets through headers_mut(): a Date of its own,
\* the time 0, and a Content-Type
HeaderChoices ==
    {[name |-> DateName, value |-> FmtDate(0)],
     [name |-> "Content-Type", value |-> "text/plain"]}

\* Headers::new()
HeadersNew == <<>>
\* Headers::has
HeadersHas(hs, n) == \E i \in 1..Len(hs) : hs[i].name = n
\* Headers::set: replaces the value of a name already present, keeping its
\* place, and appends a new name
HeadersSet(hs, h) ==
    IF HeadersHas(hs, h.name)
    THEN [i \in 1..Len(hs) |-> IF hs[i].name = h.name THEN h ELSE hs[i]]
    ELSE Append(hs, h)
\* Headers::remove
HeadersRemove(hs, n) == SelectSeq(hs, LAMBDA h : h.name # n)
\* Headers::get
HeadersGet(hs, n) == (CHOOSE i \in 1..Len(hs) : hs[i].name = n)

---------------------------------------------------------------------------
(* std::io::BufferedWriter<S> over the stream S, as in the standard        *)
(* library this code is written against (std::io with IoResult):           *)
(*   flush_buf: if pos != 0 { ret = inner.write(buf[..pos]); pos = 0; ret } *)
(*   write:     if pos + len > cap { try!(flush_buf()) }                   *)
(*              if len > cap { inner.write(msg) } else { copy to buf }     *)
(*   flush:     flush_buf().and_then(|()| inner.flush())                   *)
(*   drop:      let _ = flush_buf()                                        *)
(* A call on the stream may return Err, at any time and not for good.      *)
(* A fault [n, k] makes the n-th call on the stream fail during one        *)
(* operation after the stream took k bytes of it (n = 0: none fails); the  *)
(* bytes a failed write leaves on the stream are none or the first one.    *)

NoFault == [n |-> 0, k |-> 0]
\* the faults of an operation that makes io calls on the stream
Faults(io) == {NoFault} \cup [n : 1..io, k : {0, 1}]

\* a mutant of BufferedWriterNew: the writer is made with a byte to send
BufferedWriterPrimed(cap) == [inner |-> <<>>, buf |-> <<LF>>, cap |-> cap]
\* BufferedWriter::new / with_capacity
BufferedWriterNew(cap) == [inner |-> <<>>, buf |-> <<>>, cap |-> cap]

\* S::write(data), the io-th call on the stream in this operation
InnerWrite(bw, data, io, fault) ==
    IF fault.n = io
    THEN [bw |-> [bw EXCEPT !.inner = @ \o SubSeq(data, 1, Min(fault.k, Len(data) - 1))],
          ok |-> FALSE, io |-> io]
    ELSE [bw |-> [bw EXCEPT !.inner = @ \o data], ok |-> TRUE, io |-> io]

\* BufferedWriter::flush_buf: writes the buffer to the stream and empties it
\* whatever the outcome of that write
flush_buf(bw, io, fault) ==
    IF Len(bw.buf) # 0
    THEN LET r == InnerWrite(bw, bw.buf, io + 1, fault)
         IN  [r EXCEPT !.bw.buf = <<>>]
    ELSE [bw |-> bw, ok |-> TRUE, io |-> io]

\* BufferedWriter::write, after its flush_buf (if any) gave r1
bw_write_rest(r1, msg, fault) ==
    IF ~r1.ok THEN r1
    ELSE IF Len(msg) > r1.bw.cap
         THEN InnerWrite(r1.bw, msg, r1.io + 1, fault)
         ELSE [r1 EXCEPT !.bw.buf = @ \o msg]

\* BufferedWriter::write
bw_write(bw, msg, io, fault) ==
    bw_write_rest(IF Len(bw.buf) + Len(msg) > bw.cap
                  THEN flush_buf(bw, io, fault)
                  ELSE [bw |-> bw, ok |-> TRUE, io |-> io],
                  msg, fault)

\* S::flush(), the io-th call on the stream in this operation
InnerFlush(bw, io, fault) == [bw |-> bw, ok |-> fault.n # io, io |-> io]

\* BufferedWriter::flush, after its flush_buf gave r1
bw_flush_rest(r1, fault) == IF ~r1.ok THEN r1 ELSE InnerFlush(r1.bw, r1.io + 1, fault)

\* BufferedWriter::flush: flush_buf().and_then(|()| inner.flush())
bw_flush(bw, io, fault) == bw_flush_rest(flush_buf(bw, io, fault), fault)

\* Drop for BufferedWriter: let _ = self.flush_buf()
bw_drop(bw, fault) == flush_buf(bw, 0, fault).bw

---------------------------------------------------------------------------
(* Response<Fresh, S>::start, lines 74-97.  A run of start() is a record   *)
(* [bw, ok, io, calls, errAt]: the writer, whether the last write returned *)
(* Ok, the calls made on the stream so far, the self.body.write calls      *)
(* issued so far and the index of the first one that returned Err.         *)

\* what a self.body.write(msg) that gave r leaves of the run st
Called(st, msg, r) ==
    [bw |-> r.bw, ok |-> r.ok, io |-> r.io,
     calls |-> Append(st.calls, msg),
     errAt |-> IF st.errAt # 0 THEN st.errAt
               ELSE IF r.ok THEN 0 ELSE Len(st.calls) + 1]

\* self.body.write(msg)
WriteCall(st, msg, fault) == Called(st, msg, bw_write(st.bw, msg, st.io, fault))

\* Writer::write_fmt: one write per piece of the format, stopping at the
\* first piece whose write fails
RECURSIVE write_fmt(_, _, _)
write_fmt_rest(r, pieces, fault) == IF r.ok THEN write_fmt(r, pieces, fault) ELSE r
write_fmt(st, pieces, fault) ==
    IF pieces = <<>> THEN st
    ELSE write_fmt_rest(WriteCall(st, <<Head(pieces)>>, fault), Tail(pieces), fault)

\* a mutant of Returned: the result of a write is ignored
ReturnedNever(st) == FALSE
\* try!(e): start() returns the error of a failed write at once
Returned(st) == ~st.ok

\* a mutant of WriteLineEnding: the terminator written is a bare LF
WriteLineEndingLF(st, fault) == IF Returned(st) THEN st ELSE WriteCall(st, <<LF>>, fault)
\* try!(self.body.write(LINE_ENDING)), lines 85 and 88
WriteLineEnding(st, fault) == IF Returned(st) THEN st ELSE WriteCall(st, LINE_ENDING, fault)

\* a mutant of StatusLine: the line terminator is left out
StatusLineNoCRLF(v, s) == <<FmtVersion(v), " ", FmtStatus(s)>>
\* line 76: "{} {}{}{}", version, status, CR, LF
StatusLine(v, s) == <<FmtVersion(v), " ", FmtStatus(s), CR, LF>>

\* a mutant of DateToSet: the current time is set whatever the headers hold
DateAlways(hs, now) == <<now>>
\* lines 78-80: the time to set as Date, if any
DateToSet(hs, now) == IF ~HeadersHas(hs, DateName) THEN <<now>> ELSE <<>>

\* a mutant of SetDate: the Date set takes the place of the other headers
SetDateOnly(hs, d) ==
    IF d = <<>> THEN hs ELSE <<[name |-> DateName, value |-> FmtDate(d[1])]>>
\* self.headers.set(common::Date(t)) for the t of d, if any
SetDate(hs, d) ==
    IF d = <<>> THEN hs ELSE HeadersSet(hs, [name |-> DateName, value |-> FmtDate(d[1])])

\* line 84: "{}: {}", name, header
HeaderLine(h) == <<h.name, ": ", h.value>>

\* lines 82-86: the loop over self.headers.iter()
RECURSIVE HeaderLoop(_, _, _)
HeaderLoop(st, hs, fault) ==
    IF hs = <<>> \/ Returned(st) THEN st
    ELSE HeaderLoop(WriteLineEnding(write_fmt(st, HeaderLine(Head(hs)), fault), fault),
                    Tail(hs), fault)

\* lines 90-96, or the return of an error: the result of start() and what
\* it did.  On Err self is dropped, and its BufferedWriter with it.
Started(s3, hs, d) ==
    [ok |-> s3.ok,
     io |-> s3.io,
     body |-> IF s3.ok THEN s3.bw ELSE bw_drop(s3.bw, NoFault),
     headers |-> hs,
     dateRead |-> IF d = <<>> THEN -1 ELSE d[1],
     calls |-> s3.calls,
     errAt |-> s3.errAt]

\* lines 82-96, with the headers hs to write
start_headers(s1, hs, d, fault) ==
    Started(WriteLineEnding(HeaderLoop(s1, hs, fault), fault), hs, d)

\* a mutant of start_date: the Date is set whatever became of the write of
\* the status line
start_date_early(self, s1, d, fault) ==
    start_headers(s1, SetDate(self.headers, d), d, fault)
\* lines 78-96, after the status line was written in run s1
start_date(self, s1, d, fault) ==
    IF Returned(s1) THEN Started(s1, self.headers, <<>>)
    ELSE start_headers(s1, SetDate(self.headers, d), d, fault)

\* start(self) with now_utc() = now
start(self, now, fault) ==
    start_date(self,
               write_fmt([bw |-> self.body, ok |-> TRUE, io |-> 0, calls |-> <<>>, errAt |-> 0],
                         StatusLine(self.version, self.status), fault),
               DateToSet(self.headers, now), fault)

---------------------------------------------------------------------------
(* The state machine *)

Self == [version |-> version, body |-> body, status |-> status, headers |-> headers]

History0 ==
    /\ lastOk = TRUE
    /\ startedAt = -1
    /\ given = <<>>
    /\ dateRead = -1
    /\ calls = <<>>
    /\ errAt = 0
    /\ committed = <<>>
    /\ written = <<>>
    /\ sent = <<>>
    /\ offered = 0
    /\ faulted = FALSE
    /\ nops = 0
    /\ ios = 0
    /\ failedIo = 0

\* Response::new(stream), lines 64-71
New ==
    /\ phase = "Fresh"
    /\ status = "Ok"
    /\ version = "Http11"
    /\ headers = HeadersNew
    /\ body = BufferedWriterNew(DEFAULT_BUF_SIZE)
    /\ lastOp = "new"

\* Response::construct(version, body, status, headers), lines 49-59, over a
\* BufferedWriter::with_capacity(SmallCap, stream)
ConstructInit ==
    /\ phase = "Fresh"
    /\ status \in Statuses
    /\ version \in Versions
    /\ headers = HeadersNew
    /\ body = BufferedWriterNew(SmallCap)
    /\ lastOp = "construct"

Init ==
    /\ clock = 0
    /\ History0
    /\ (New \/ ConstructInit)

Alive == phase \in {"Fresh", "Streaming"}

\* a mutant of IsFresh: the methods of Response<Fresh> exist on Streaming too
IsFreshOrStreaming == Alive
\* line 62: impl<S: NetworkStream> Response<Fresh, S>
IsFresh == phase = "Fresh"
\* lines 112 and 120: impl ... Response<Streaming, S>
IsStreaming == phase = "Streaming"

\* status(&self), line 43
Status ==
    /\ Alive
    /\ UNCHANGED vars

\* headers(&self), line 46
Headers ==
    /\ Alive
    /\ UNCHANGED vars

\* *status_mut() = s, line 101
StatusMut ==
    /\ IsFresh
    /\ \E s \in Statuses : status' = s
    /\ UNCHANGED <<phase, version, body, headers>>
    /\ UNCHANGED <<clock, lastOp, lastOk, hist_start, written, hist_body, hist_io>>

\* headers_mut().set(h) and headers_mut().remove(n), line 104
HeadersMut ==
    /\ IsFresh
    /\ \/ \E h \in HeaderChoices : headers' = HeadersSet(headers, h)
       \/ \E h \in HeaderChoices : headers' = HeadersRemove(headers, h.name)
    /\ UNCHANGED <<phase, version, body, status>>
    /\ UNCHANGED <<clock, lastOp, lastOk, hist_start, written, hist_body, hist_io>>

\* deconstruct(self), lines 107-109: the parts go to the caller
Deconstruct ==
    /\ IsFresh
    /\ phase' = "Parts"
    /\ UNCHANGED <<version, body, status, headers>>
    /\ UNCHANGED <<clock, lastOp, lastOk, hist_start, written, hist_body, hist_io>>

\* a mutant of Construct: the response is made as Response::new makes it,
\* with the status and the headers of a new response
ConstructAnew ==
    /\ phase = "Parts"
    /\ phase' = "Fresh"
    /\ lastOp' = "construct"
    /\ status' = "Ok"
    /\ headers' = HeadersNew
    /\ UNCHANGED <<version, body>>
    /\ UNCHANGED <<clock, lastOk, hist_start, written, hist_body, hist_io>>
\* Response::construct(version, body, status, headers), lines 49-59, from
\* the parts deconstruct() returned
Construct ==
    /\ phase = "Parts"
    /\ phase' = "Fresh"
    /\ lastOp' = "construct"
    /\ UNCHANGED <<version, body, status, headers>>
    /\ UNCHANGED <<clock, lastOk, hist_start, written, hist_body, hist_io>>

\* a mutant of StartedPhase: start() leaves the Fresh response in place
StartedPhaseFresh(ok) == "Fresh"
\* a mutant of StartedPhase: a Streaming response is produced on Err too
StartedPhaseAlways(ok) == "Streaming"
\* line 74: start(mut self) -> IoResult<Response<Streaming, S>> consumes self
\* and gives a Response<Streaming> on Ok only
StartedPhase(ok) == IF ok THEN "Streaming" ELSE "Failed"

\* a mutant of NowUtc: the time is one taken before start() was invoked
NowUtcStale(c) == 0..MaxClock
\* line 79: the times now_utc() can return in a start() invoked at time c
NowUtc(c) == c..MaxClock

\* start(self), lines 74-97
Start ==
    /\ IsFresh
    /\ \E now \in NowUtc(clock) :
       \E fault \in Faults(start(Self, now, NoFault).io) :
         \E r \in {start(Self, now, fault)} :
             /\ phase' = StartedPhase(r.ok)
             /\ body' = r.body
             /\ headers' = r.headers
             /\ clock' = IF now > clock THEN now ELSE clock
             /\ lastOk' = r.ok
             /\ dateRead' = r.dateRead
             /\ calls' = r.calls
             /\ errAt' = r.errAt
             /\ committed' = IF r.ok THEN <<[status |-> status, headers |-> r.headers]>>
                             ELSE <<>>
             /\ written' = written \o Flatten(r.calls)
             /\ ios' = r.io
             /\ failedIo' = fault.n
    /\ startedAt' = clock
    /\ given' = headers
    /\ lastOp' = "start"
    /\ UNCHANGED <<version, status, hist_body>>

\* a mutant of write: the message is framed, its length going first
write_framed(bw, msg, fault) == bw_write(bw, <<ToString(Len(msg))>> \o msg, 0, fault)
\* Writer::write for Response<Streaming, S>, lines 121-124
write(bw, msg, fault) == bw_write(bw, msg, 0, fault)

\* Writer::flush for Response<Streaming, S>, lines 126-128
flush(bw, fault) == bw_flush(bw, 0, fault)

\* Response<Streaming, S>::end, lines 114-117: self.flush()
end(bw, fault) == flush(bw, fault)

\* write(&mut self, msg) on a Streaming response
Write ==
    /\ IsStreaming
    /\ nops < MaxOps
    /\ \E len \in MsgLens :
       \E fault \in Faults(write(body, Msg(offered, len), NoFault).io) :
         \E msg \in {Msg(offered, len)} : \E r \in {write(body, msg, fault)} :
             /\ body' = r.bw
             /\ lastOk' = r.ok
             /\ written' = written \o msg
             /\ sent' = IF r.ok THEN sent \o msg ELSE sent
             /\ offered' = offered + len
             /\ faulted' = (faulted \/ ~r.ok)
             /\ ios' = r.io
             /\ failedIo' = fault.n
    /\ nops' = nops + 1
    /\ lastOp' = "write"
    /\ UNCHANGED <<phase, version, status, headers, clock, hist_start>>

\* flush(&mut self) on a Streaming response
Flush ==
    /\ IsStreaming
    /\ nops < MaxOps
    /\ \E fault \in Faults(flush(body, NoFault).io) :
         \E r \in {flush(body, fault)} :
             /\ body' = r.bw
             /\ lastOk' = r.ok
             /\ faulted' = (faulted \/ ~r.ok)
             /\ ios' = r.io
             /\ failedIo' = fault.n
    /\ nops' = nops + 1
    /\ lastOp' = "flush"
    /\ UNCHANGED <<phase, version, status, headers, clock, hist_start>>
    /\ UNCHANGED <<written, sent, offered>>

\* end(mut self) on a Streaming response; self is dropped when it returns,
\* and its BufferedWriter with it
End ==
    /\ IsStreaming
    /\ \E fault \in Faults(end(body, NoFault).io) :
         \E r \in {end(body, fault)} :
           \E dfault \in Faults(flush_buf(r.bw, 0, NoFault).io) :
             /\ body' = bw_drop(r.bw, dfault)
             /\ lastOk' = r.ok
             /\ ios' = r.io
             /\ failedIo' = fault.n
    /\ phase' = "Ended"
    /\ lastOp' = "end"
    /\ UNCHANGED <<version, status, headers, clock, hist_start, written, hist_body>>

\* time passes; the clock is read by start() only
Tick ==
    /\ phase \in {"Fresh", "Parts"}
    /\ clock < MaxClock
    /\ clock' = clock + 1
    /\ UNCHANGED <<prog, lastOp, lastOk, hist_start, written, hist_body, hist_io>>

Next ==
    \/ Status
    \/ Headers
    \/ StatusMut
    \/ HeadersMut
    \/ Deconstruct
    \/ Construct
    \/ Start
    \/ Write
    \/ Flush
    \/ End
    \/ Tick

Spec == Init /\ [][Next]_vars

TypeOK ==
    /\ phase \in {"Fresh", "Parts", "Streaming", "Failed", "Ended"}
    /\ version \in Versions
    /\ status \in Statuses
    /\ clock \in 0..MaxClock

---------------------------------------------------------------------------
(* The claims *)

\* the bytes that reached the stream
Sink == body.inner
\* the header lines of hs, in the order of hs
RECURSIVE HeaderBlock(_)
HeaderBlock(hs) ==
    IF hs = <<>> THEN <<>>
    ELSE <<Head(hs).name, ": ", Head(hs).value, CR, LF>> \o HeaderBlock(Tail(hs))
\* the preamble of a response: status line, header lines, blank line
Preamble(v, s, hs) ==
    <<FmtVersion(v), " ", FmtStatus(s), CR, LF>> \o HeaderBlock(hs) \o <<CR, LF>>
\* the preamble of the response as it is now
Pre == Preamble(version, status, headers)
\* whether b is one of the bytes a handler gave to write()
IsBody(b) == \E i \in 1..offered : b = BodyByte(i)
\* the bytes of s that are no body bytes
NonBody(s) == SelectSeq(s, LAMBDA b : ~IsBody(b))
\* whether a is b with some elements left out
RECURSIVE IsSubseq(_, _)
IsSubseq(a, b) ==
    IF a = <<>> THEN TRUE
    ELSE IF b = <<>> THEN FALSE
    ELSE IF Head(a) = Head(b) THEN IsSubseq(Tail(a), Tail(b))
    ELSE IsSubseq(a, Tail(b))
\* the values of the Date lines in s
DateLines(s) == {i \in 1..(Len(s) - 2) : s[i] = DateName /\ s[i + 1] = ": "}
\* start() has just returned Ok
StartedOk == lastOp = "start" /\ lastOk
\* Date was among the headers when start() was invoked
HadDate == HeadersHas(given, DateName)

\* C1: every body byte in the sink comes after the complete preamble: the
\* sink begins with the whole preamble whenever it holds a body byte.
C1_BodyAfterPreamble ==
    \A i \in 1..Len(Sink) :
        IsBody(Sink[i]) => (i > Len(Pre) /\ SubSeq(Sink, 1, Len(Pre)) = Pre)

\* C2: the status line and the header block are written at most once: a
\* Fresh response has written nothing, a start() that failed has written a
\* prefix of one preamble, and a Streaming or ended response has written
\* one preamble, first, and only the bytes given to write() since.
C2_PreambleOnce ==
    /\ (phase \in {"Fresh", "Parts"} => written = <<>>)
    /\ (phase = "Failed" => IsPrefix(written, Pre))
    /\ (phase \in {"Streaming", "Ended"} => written = Pre \o Msg(0, offered))
    /\ Cardinality({i \in 1..Len(Sink \o body.buf) :
                       (Sink \o body.buf)[i] = FmtVersion(version)}) <= 1
C2_Witness ==
    /\ phase = "Ended"
    /\ nops = MaxOps
    /\ offered > 1
    /\ lastOp = "end"

\* C3: a start() that returns Ok has written exactly the status line, the
\* header lines in the order of the header collection and one blank line,
\* to a writer that held nothing before.
C3_StartBytes ==
    StartedOk =>
        /\ Flatten(calls) = Preamble(version, status, headers)
        /\ written = Flatten(calls)
        /\ Sink \o body.buf = written
C3_Witness ==
    /\ StartedOk
    /\ version = "Http10"
    /\ status = "NotFound"
    /\ Len(headers) = 2
    /\ headers[1].name = "Content-Type"

\* C4: with a Date among the headers start() leaves the headers as they
\* are, reads no clock into them, and a start() that returns Ok has written
\* one Date line, with the value the caller gave.
C4_DateKept ==
    (startedAt >= 0 /\ HadDate) =>
        /\ headers = given
        /\ dateRead = -1
        /\ StartedOk =>
             \E i \in DateLines(written) :
                 /\ DateLines(written) = {i}
                 /\ written[i + 2] = given[HeadersGet(given, DateName)].value
C4_Witness ==
    /\ StartedOk
    /\ HadDate
    /\ given[HeadersGet(given, DateName)].value = FmtDate(0)
    /\ startedAt = MaxClock
    /\ Len(given) = 2

\* C5: without a Date among the headers a start() that returns Ok has
\* written one Date line, whose value is a clock reading taken no earlier
\* than start() was invoked.
C5_DateSynth ==
    (StartedOk /\ ~HadDate) =>
        /\ dateRead >= startedAt
        /\ dateRead <= clock
        /\ \E i \in DateLines(written) :
               /\ DateLines(written) = {i}
               /\ written[i + 2] = FmtDate(dateRead)
C5_Witness ==
    /\ StartedOk
    /\ ~HadDate
    /\ startedAt = MaxClock
    /\ Len(given) = 1

\* C6: after start() returned Ok the status and the headers stay what they
\* were when it returned, and status_mut() and headers_mut() are not
\* enabled on the Streaming response.
C6_Frozen ==
    /\ committed # <<>> =>
         /\ status = committed[1].status
         /\ headers = committed[1].headers
    /\ phase \in {"Streaming", "Ended"} =>
         /\ committed # <<>>
         /\ ~ENABLED StatusMut
         /\ ~ENABLED HeadersMut
C6_Witness ==
    /\ phase = "Streaming"
    /\ nops = MaxOps
    /\ lastOp = "flush"
    /\ offered > 0
    /\ status = "NotFound"

\* C7: the write of start() that fails is the last one start() issues,
\* start() returns its error, and the sink holds nothing of a later write.
C7_AbortAtFirstError ==
    errAt # 0 =>
        /\ Len(calls) = errAt
        /\ lastOp = "start"
        /\ ~lastOk
        /\ IsPrefix(Sink, Flatten(calls))
C7_Witness ==
    /\ errAt > Len(StatusLine(version, status))
    /\ errAt < Len(calls) + 1
    /\ Len(headers) = 2
    /\ Len(calls) < Len(StatusLine(version, status)) + 4

\* C8: a start() that failed leaves no response: write(), flush(), end()
\* and start() are not enabled, no write() was ever made and the sink holds
\* no body byte.
C8_NoWriterOnFailure ==
    /\ (lastOp = "start" /\ ~lastOk) => phase = "Failed"
    /\ errAt # 0 => phase = "Failed"
    /\ phase = "Failed" =>
         /\ ~ENABLED Write
         /\ ~ENABLED Flush
         /\ ~ENABLED End
         /\ ~ENABLED Start
         /\ committed = <<>>
         /\ offered = 0
         /\ NonBody(Sink) = Sink
C8_Witness ==
    /\ phase = "Failed"
    /\ Len(Sink) > Len(StatusLine(version, status))

C10_EndExact ==
    (phase = "Ended" /\ lastOk) => (Sink = Pre \o sent /\ body.buf = <<>>)

\* the bytes the writer holds or has passed on: the stream, then the buffer
Out == Sink \o body.buf
\* the message of the write() call that is the step being taken
StepMsg == Msg(offered, offered' - offered)
\* the step is a call of write()
IsWriteStep == lastOp' = "write" /\ nops' = nops + 1

\* C11: a write() call hands the writer the given bytes and nothing else,
\* after all it held: when it returns Ok the stream and the buffer hold
\* what they held and then the message, whatever it returns the stream
\* only grows, by bytes of the buffer and the message in order.  It
\* returns Err exactly when a call on the stream failed, that call being
\* the last one it makes, and a write of no bytes makes no call on the
\* stream and leaves the writer as it was.
C11_WriteAppends ==
    [][IsWriteStep =>
         /\ written' = written \o StepMsg
         /\ IsPrefix(Sink, Sink')
         /\ IsPrefix(Sink', Out \o StepMsg)
         /\ lastOk' => Out' = Out \o StepMsg
         /\ lastOk' <=> failedIo' = 0
         /\ failedIo' # 0 => ios' = failedIo'
         /\ ios' <= 2
         /\ StepMsg = <<>> => (body' = body /\ lastOk' /\ ios' = 0)
         /\ UNCHANGED <<phase, version, status, headers>>]_vars
C11_Witness ==
    /\ lastOp = "write"
    /\ lastOk
    /\ ios = 2
    /\ nops = MaxOps
    /\ Len(sent) > SmallCap + 1

\* C12: when flush() returns Ok the sink holds every byte the response
\* accepted so far, the preamble and then the bytes of the write() calls
\* that returned Ok, in order, and the buffer holds nothing.
C12_FlushExact ==
    (lastOp = "flush" /\ lastOk) => (Sink = Pre \o sent /\ body.buf = <<>>)

\* start() was not called yet
NotStarted == startedAt = -1

\* C13: the response Response::new gives is Fresh, with status Ok, version
\* Http11 and no headers, over a writer that holds nothing and a stream
\* on which no call was made; and as long as start() was not called,
\* whatever was done with status(), headers(), status_mut() and
\* headers_mut(), the sink and the buffer hold nothing and no call was
\* made on the stream.
C13_NewNoIO ==
    /\ lastOp = "new" =>
          /\ phase = "Fresh"
          /\ status = "Ok"
          /\ version = "Http11"
          /\ headers = <<>>
          /\ body.cap = DEFAULT_BUF_SIZE
    /\ [](NotStarted =>
            /\ Sink = <<>>
            /\ body.buf = <<>>
            /\ written = <<>>
            /\ ios = 0)
C13_Witness ==
    /\ NotStarted
    /\ lastOp = "new"
    /\ phase = "Fresh"
    /\ status = "NotFound"
    /\ Len(headers) = 2
    /\ clock = MaxClock

\* how far a response has come: Fresh (or taken apart), Streaming, over
Rank(ph) == IF ph \in {"Fresh", "Parts"} THEN 0 ELSE IF ph = "Streaming" THEN 1 ELSE 2
\* the step is a call of start()
IsStartStep == lastOp' = "start" /\ startedAt' >= 0 /\ written' # written

\* C14: no step takes a response back: a Streaming response never becomes
\* Fresh again and one that has ended or failed stays as it is; the only
\* step into Streaming is a start() that returns Ok, start() is only ever
\* called on a Fresh response on which it was not called before, and on a
\* Streaming or ended response deconstruct() and construct() are not
\* enabled.
C14_PhaseForward ==
    /\ [][/\ Rank(phase') >= Rank(phase)
          /\ Rank(phase) = 2 => phase' = phase
          /\ (phase' = "Streaming" /\ phase # "Streaming") =>
                (phase = "Fresh" /\ IsStartStep /\ lastOk')
          /\ IsStartStep => (phase = "Fresh" /\ NotStarted /\ committed = <<>>)]_vars
    /\ [](Rank(phase) >= 1 =>
            /\ ~ENABLED Deconstruct
            /\ ~ENABLED Construct)
C14_Witness ==
    /\ phase = "Ended"
    /\ lastOk
    /\ startedAt = MaxClock
    /\ nops = 1
    /\ offered = 1

\* C15: a start() that returns Ok leaves the version and the status as
\* they were, hands on the writer it had, with its capacity, the bytes on
\* its stream and in its buffer followed by those start() wrote, and
\* leaves the headers as they were when they had a Date, and with a Date
\* added to them when they had none; and no step changes the version.
C15_StartFrame ==
    /\ [][(IsStartStep /\ lastOk') =>
            /\ version' = version
            /\ status' = status
            /\ body'.cap = body.cap
            /\ IsPrefix(Sink, Sink')
            /\ Out' = Out \o Flatten(calls')
            /\ given' = headers
            /\ HeadersHas(headers, DateName) => headers' = headers
            /\ ~HeadersHas(headers, DateName) =>
                  /\ HeadersHas(headers', DateName)
                  /\ HeadersRemove(headers', DateName) = headers
                  /\ Len(headers') = Len(headers) + 1]_vars
    /\ [][version' = version]_vars
C15_Witness ==
    /\ StartedOk
    /\ ~HadDate
    /\ Len(given) = 1
    /\ Len(headers) = 2
    /\ version = "Http10"
    /\ status = "NotFound"
    /\ body.cap = SmallCap

\* a Fresh response with the fields this one had when start() was called
\* on it, over a writer of capacity cap that holds nothing
Twin(cap) ==
    [version |-> version, status |-> status, headers |-> given,
     body |-> BufferedWriterNew(cap)]

RECURSIVE HeaderCalls(_)
HeaderCalls(hs) ==
    IF hs = <<>> THEN <<>>
    ELSE <<<<Head(hs).name>>, <<": ">>, <<Head(hs).value>>, LINE_ENDING>>
         \o HeaderCalls(Tail(hs))
\* the writes of the status line
StatusCalls(v, s) == <<<<FmtVersion(v)>>, <<" ">>, <<FmtStatus(s)>>, <<CR>>, <<LF>>>>
\* the writes of a whole preamble, the last one being the blank line
PreambleCalls(v, s, hs) == StatusCalls(v, s) \o HeaderCalls(hs) \o <<LINE_ENDING>>
\* the status line was written, every write of it returning Ok
StatusLineDone ==
    /\ Len(calls) >= Len(StatusCalls(version, status))
    /\ errAt \notin 1..Len(StatusCalls(version, status))

\* C17: the writes start() issued are, in this order, those of the status
\* line, for each header those of its text and then one of its line
\* terminator, and one of the blank line: all of them when start()
\* returned Ok, and when a write returned Err those up to it.  A Date is
\* set in headers that had none exactly when the status line was written,
\* and is then among the header lines written.
C17_WriteOrder ==
    startedAt >= 0 =>
        /\ IsPrefix(calls, PreambleCalls(version, status, headers))
        /\ errAt = 0 => calls = PreambleCalls(version, status, headers)
        /\ errAt # 0 => errAt = Len(calls)
        /\ calls[Len(calls)] = LINE_ENDING =>
              \/ Len(calls) = Len(PreambleCalls(version, status, headers))
              \/ calls[Len(calls) - 1] # LINE_ENDING
        /\ ~HadDate => (HeadersHas(headers, DateName) <=> StatusLineDone)
        /\ ~StatusLineDone => (headers = given /\ dateRead = -1)
C17_Witness ==
    /\ StartedOk
    /\ HadDate
    /\ Len(headers) = 2
    /\ Len(calls) = Len(PreambleCalls(version, status, headers))
    /\ body.cap = SmallCap
    /\ clock = 0

\* C18: in every state the bytes in the sink are a prefix of the message
\* the response was given to send, which is the bytes handed to its
\* writer in the order of the calls, the preamble and then the body.
C18_SinkPrefix ==
    IsPrefix(Sink, written)

\* the step is a call of deconstruct(), or of construct() on its parts
IsPartsStep == (phase = "Fresh" /\ phase' = "Parts") \/ (phase = "Parts" /\ phase' = "Fresh")

===========================================================================
